---- MODULE Spec2Model ----
(***************************************************************************)
(* A model of pydantic2zod's parser (src/pydantic2zod/_parser.py).         *)
(*                                                                         *)
(* Syntax-tree nodes of a type annotation are records [k, n, a]:           *)
(*   k = "Name"  n = identifier                  (cst.Name)                *)
(*   k = "Sub"   n = subscripted identifier, a = the subscript elements    *)
(*                                               (cst.Subscript)           *)
(*   k = "Or"    a = <<left, right>>             (cst.BinaryOperation, |)  *)
(*   k = "Str"   n = the string's text           (cst.SimpleString)        *)
(* PyType values are records [t, n, a]: t is the variant, n its name or    *)
(* value, a its ordered member / argument types.                           *)
(***************************************************************************)
EXTENDS Integers, Sequences, FiniteSets, TLC

VARIABLES
    expr,       \* SpecType: the annotation handed to _extract_type
    pytype,     \* SpecType: the PyType it returned ("none" before the call)
    tpc,        \* SpecType: "start" | "done"
    msrc,       \* SpecModule: the source of the module a _ParseModule visits
    monly,      \* SpecModule: its parse_only_models
    msess,      \* SpecModule: the session after exec()
    mpc,        \* SpecModule: "start" | "done"
    pc,         \* parse(): "start" | "running" | "done" | "raised"
    files,      \* the source of every module read so far
    read,       \* the modules read so far
    model_graph,\* the DiGraph shared by every _parse of the run
    stack,      \* the _parse invocations in progress, innermost last
    log,        \* the warnings logged, as <<dep, class>>
    loads,      \* the <<module, class>> handed to import_module / _parse so far
    raised,     \* the exception that ended the run ("" if none)
    result      \* the list parse() returned

typeVars == <<expr, pytype, tpc>>
modVars == <<msrc, monly, msess, mpc>>
runVars == <<pc, files, read, model_graph, stack, log, loads, raised, result>>
vars == <<expr, pytype, tpc, msrc, monly, msess, mpc, pc, files, read, model_graph, stack, log, loads, raised, result>>

----------------------------------------------------------------------------
(* Syntax-tree constructors *)

Name(n) == [k |-> "Name", n |-> n, a |-> <<>>]
Str(s) == [k |-> "Str", n |-> s, a |-> <<>>]
Sub(g, args) == [k |-> "Sub", n |-> g, a |-> args]
Or(l, r) == [k |-> "Or", n |-> "", a |-> <<l, r>>]

(* PyType constructors (._model) *)

PrimitiveType(n) == [t |-> "Primitive", n |-> n, a |-> <<>>]
BuiltinType(n) == [t |-> "Builtin", n |-> n, a |-> <<>>]
UserDefinedType(n) == [t |-> "UserDefined", n |-> n, a |-> <<>>]
LiteralType(v) == [t |-> "Literal", n |-> v, a |-> <<>>]
GenericType(g, tv) == [t |-> "Generic", n |-> g, a |-> tv]
UnionType(ts) == [t |-> "Union", n |-> "", a |-> ts]
TupleType(ts) == [t |-> "Tuple", n |-> "", a |-> ts]
\* An AssertionError / ensure_type failure raised while extracting.
TypeError == [t |-> "Error", n |-> "", a |-> <<>>]

AnyError(ts) == \E i \in 1..Len(ts) : ts[i].t = "Error"

----------------------------------------------------------------------------
(* The Field Type Extractor *)

_primitive_or_user_defined_type(type_name) ==
    IF type_name \in {"str", "bytes", "bool", "int", "float", "None"}
    THEN PrimitiveType(type_name)
    ELSE IF type_name \in {"dict", "Dict"} THEN BuiltinType("dict")
    ELSE IF type_name \in {"list", "List"} THEN BuiltinType("list")
    ELSE UserDefinedType(type_name)

_parse_literal(node) ==
    IF \E i \in 1..Len(node.a) : node.a[i].k # "Str"
    THEN TypeError
    ELSE IF Len(node.a) = 1
    THEN LiteralType(node.a[1].n)
    ELSE UnionType([i \in 1..Len(node.a) |-> LiteralType(node.a[i].n)])

\* UnionOperand without the splice: the operand is kept as one member.
UnionOperandNested(tp) == <<tp>>

\* The members an operand of | contributes: a UnionType is spliced in.
UnionOperand(tp) == IF tp.t = "Union" THEN tp.a ELSE <<tp>>

RECURSIVE _extract_type(_)

_parse_types_list(node) == [i \in 1..Len(node.a) |-> _extract_type(node.a[i])]

_parse_generic_type(node) ==
    LET generic_type == node.n
        types == _parse_types_list(node)
    IN  IF generic_type = "Literal" THEN _parse_literal(node)
        ELSE IF generic_type \notin
                {"list", "List", "dict", "Dict", "Union", "Optional", "tuple", "Tuple"}
        THEN TypeError
        ELSE IF AnyError(types) THEN TypeError
        ELSE IF generic_type \in {"list", "List"} THEN GenericType("list", types)
        ELSE IF generic_type \in {"dict", "Dict"} THEN GenericType("dict", types)
        ELSE IF generic_type = "Union" THEN UnionType(types)
        ELSE IF generic_type = "Optional"
        THEN UnionType(types \o <<PrimitiveType("None")>>)
        ELSE TupleType(types)

_extract_union(node) ==
    LET left == _extract_type(node.a[1])
        right == _extract_type(node.a[2])
    IN  IF left.t = "Error" \/ right.t = "Error" THEN TypeError
        ELSE UnionType(UnionOperand(left) \o UnionOperand(right))

_extract_type(node) ==
    CASE node.k = "Name" -> _primitive_or_user_defined_type(node.n)
      [] node.k = "Sub" -> _parse_generic_type(node)
      [] node.k = "Or" -> _extract_union(node)
      [] OTHER -> TypeError

RECURSIVE _get_user_defined_types(_)
RECURSIVE ChainTypes(_, _)

\* chain(*[_get_user_defined_types(t) for t in types]) from position i on
ChainTypes(types, i) ==
    IF i > Len(types) THEN <<>>
    ELSE _get_user_defined_types(types[i]) \o ChainTypes(types, i + 1)

_get_user_defined_types(tp) ==
    CASE tp.t = "UserDefined" -> <<tp.n>>
      [] tp.t = "Union" -> ChainTypes(tp.a, 1)
      [] tp.t = "Generic" -> ChainTypes(tp.a, 1)
      [] OTHER -> <<>>

----------------------------------------------------------------------------
(* The shared DiGraph: nodes and edges in insertion order *)

Range(f) == {f[i] : i \in DOMAIN f}

InSeq(x, seq) == \E i \in 1..Len(seq) : seq[i] = x

EmptyGraph == [nodes |-> <<>>, edges |-> <<>>]

add_node(g, n) ==
    IF InSeq(n, g.nodes) THEN g ELSE [g EXCEPT !.nodes = Append(@, n)]

add_edge(g, u, v) ==
    LET g1 == add_node(add_node(g, u), v)
    IN  IF InSeq(<<u, v>>, g1.edges) THEN g1
        ELSE [g1 EXCEPT !.edges = Append(@, <<u, v>>)]

\* G[u]: the successors of u in the order their edges were added
Successors(g, u) ==
    LET es == SelectSeq(g.edges, LAMBDA e : e[1] = u)
    IN  [i \in 1..Len(es) |-> es[i][2]]

RECURSIVE DfsVisit(_, _, _)
RECURSIVE DfsChildren(_, _, _, _)

\* DfsVisit yielding a node when the traversal enters it (preorder).
DfsVisitPreorder(g, v, st) ==
    DfsChildren(g, Successors(g, v), 1,
                [st EXCEPT !.visited = @ \cup {v}, !.out = Append(@, v)])

\* st = [visited, out]: out lists the nodes in the order the traversal leaves them
DfsVisit(g, v, st) ==
    LET entered == [st EXCEPT !.visited = @ \cup {v}]
        below == DfsChildren(g, Successors(g, v), 1, entered)
    IN  [below EXCEPT !.out = Append(@, v)]

DfsChildren(g, cs, i, st) ==
    IF i > Len(cs) THEN st
    ELSE DfsChildren(g, cs, i + 1,
                     IF cs[i] \in st.visited THEN st ELSE DfsVisit(g, cs[i], st))

\* networkx.dfs_postorder_nodes(G) with no source: every node of G, in
\* insertion order, starts a traversal unless already visited.
dfs_postorder_nodes(g) == DfsChildren(g, g.nodes, 1, [visited |-> {}, out |-> <<>>]).out

----------------------------------------------------------------------------
(* One _ParseModule session over a module's source                          *)
(*                                                                         *)
(* A module's source is [imports, classes, aliases]: imports maps each     *)
(* imported symbol to the module it is imported from, classes lists the    *)
(* class statements [name, bases, fields] in declaration order (fields     *)
(* are the annotations of the annotated assignments of the class body),    *)
(* aliases maps each module-level TypeAlias name to its right-hand side.   *)
(* A session is [pyd, g, ext, warns, raised]: _pydantic_classes in         *)
(* insertion order, the shared graph, _external_models, the warnings       *)
(* logged as <<dep, class>>, and the exception that ended it ("" if none). *)
(***************************************************************************)

HasClass(m, name) == \E i \in 1..Len(m.classes) : m.classes[i].name = name

ClassNode(m, name) ==
    m.classes[CHOOSE i \in 1..Len(m.classes) : m.classes[i].name = name]

ClassDecl(name, bases, fields) == [name |-> name, bases |-> bases, fields |-> fields]

InPyd(s, name) == \E i \in 1..Len(s.pyd) : s.pyd[i].name = name

\* self._pydantic_classes[cls.name] = cls
PutPyd(pyd, cls) ==
    IF \E i \in 1..Len(pyd) : pyd[i].name = cls.name
    THEN [i \in 1..Len(pyd) |-> IF pyd[i].name = cls.name THEN cls ELSE pyd[i]]
    ELSE Append(pyd, cls)

NewSession(g) == [pyd |-> <<>>, g |-> g, ext |-> {}, warns |-> <<>>, raised |-> ""]

RECURSIVE _is_pydantic_model(_, _)

\* "true", "false", or "KeyError" when self._imports["BaseModel"] is missing
_is_pydantic_model(m, cls) ==
    IF InSeq("BaseModel", cls.bases) /\ "BaseModel" \notin DOMAIN m.imports
    THEN "KeyError"
    ELSE IF InSeq("BaseModel", cls.bases) /\ m.imports["BaseModel"] = "pydantic"
    THEN "true"
    ELSE LET local == {i \in 1..Len(cls.bases) : HasClass(m, cls.bases[i])}
         IN  IF local = {} THEN "false"
             ELSE LET first == CHOOSE i \in local : \A j \in local : i <= j
                  IN  _is_pydantic_model(m, ClassNode(m, cls.bases[first]))

\* The fields as _ParseClassDecl.visit_AnnAssign extracts them
ExtractFields(node) == [i \in 1..Len(node.fields) |-> _extract_type(node.fields[i])]

\* for f in cls.fields: a field whose whole type names an alias gets the
\* alias's extracted type
ResolveAliases(m, fields) ==
    [i \in 1..Len(fields) |->
        IF fields[i].t = "UserDefined" /\ fields[i].n \in DOMAIN m.aliases
        THEN _extract_type(m.aliases[fields[i].n])
        ELSE fields[i]]

_finish_parsing_class(m, s, node) ==
    LET fields == ExtractFields(node)
        resolved == ResolveAliases(m, fields)
    IN  IF AnyError(fields) \/ AnyError(resolved)
        THEN [s EXCEPT !.raised = "AssertionError"]
        ELSE [s EXCEPT !.pyd = PutPyd(@, ClassDecl(node.name, node.bases, resolved)),
                       !.g = add_node(@, node.name)]

PydNamed(s, name) == s.pyd[CHOOSE i \in 1..Len(s.pyd) : s.pyd[i].name = name]

_class_deps(cls) ==
    SelectSeq(cls.bases, LAMBDA c : c # "BaseModel")
        \o ChainTypes(cls.fields, 1)

RECURSIVE _parse_pydantic_model(_, _, _)
RECURSIVE ParseModelDeps(_, _, _, _, _)

\* the loop of _parse_pydantic_model over _class_deps(cls), from position i on
ParseModelDeps(m, s, name, deps, i) ==
    IF i > Len(deps) \/ s.raised # "" THEN s
    ELSE LET dep == deps[i]
             s1 == [s EXCEPT !.g = add_edge(@, name, dep)]
             s2 == IF dep \in DOMAIN m.imports
                   THEN [s1 EXCEPT !.ext = @ \cup {dep}]
                   ELSE IF HasClass(m, dep)
                   THEN _parse_pydantic_model(m, s1, ClassNode(m, dep))
                   ELSE [s1 EXCEPT !.warns = Append(@, <<dep, name>>)]
         IN  ParseModelDeps(m, s2, name, deps, i + 1)

_parse_pydantic_model(m, s, node) ==
    LET is_model == _is_pydantic_model(m, node)
    IN  IF is_model = "KeyError" THEN [s EXCEPT !.raised = "KeyError"]
        ELSE IF is_model = "false" \/ InPyd(s, node.name) THEN s
        ELSE LET s1 == _finish_parsing_class(m, s, node)
             IN  IF s1.raised # "" THEN s1
                 ELSE ParseModelDeps(m, s1, node.name,
                                     _class_deps(PydNamed(s1, node.name)), 1)

RECURSIVE _parse_all_classes(_, _, _)

\* for cls_decl in self._classes.values(), from position i on
_parse_all_classes(m, s, i) ==
    IF i > Len(m.classes) \/ s.raised # "" THEN s
    ELSE LET is_model == _is_pydantic_model(m, m.classes[i])
             s1 == IF is_model = "KeyError" THEN [s EXCEPT !.raised = "KeyError"]
                   ELSE IF is_model = "true"
                   THEN _finish_parsing_class(m, s, m.classes[i])
                   ELSE s
         IN  _parse_all_classes(m, s1, i + 1)

RECURSIVE AllClassesDeps(_, _, _, _, _)

\* leave_Module's loops over self._pydantic_classes.values() and
\* _class_deps(cls): class number c, dependency number i
AllClassesDeps(m, s, c, deps, i) ==
    IF c > Len(s.pyd) THEN s
    ELSE IF i > Len(deps)
    THEN IF c + 1 > Len(s.pyd) THEN s
         ELSE AllClassesDeps(m, s, c + 1, _class_deps(s.pyd[c + 1]), 1)
    ELSE LET dep == deps[i]
             name == s.pyd[c].name
             s1 == [s EXCEPT !.g = add_edge(@, name, dep)]
             s2 == IF dep \in DOMAIN m.imports
                   THEN [s1 EXCEPT !.ext = @ \cup {dep}]
                   ELSE IF ~HasClass(m, dep)
                   THEN [s1 EXCEPT !.warns = Append(@, <<dep, name>>)]
                   ELSE s1
         IN  AllClassesDeps(m, s2, c, deps, i + 1)

RECURSIVE VisitClassDefs(_, _, _)

\* visit_ClassDef for every class statement: self._model_graph.add_node
VisitClassDefs(m, g, i) ==
    IF i > Len(m.classes) THEN g
    ELSE VisitClassDefs(m, add_node(g, m.classes[i].name), i + 1)

\* leave_Module; parse_only_models is a set of at most one name
leave_Module(m, s, parse_only_models) ==
    IF parse_only_models # {}
    THEN LET only == CHOOSE n \in parse_only_models : TRUE
         IN  IF ~HasClass(m, only) THEN [s EXCEPT !.raised = "KeyError"]
             ELSE _parse_pydantic_model(m, s, ClassNode(m, only))
    ELSE LET s1 == _parse_all_classes(m, s, 1)
         IN  IF s1.raised # "" \/ Len(s1.pyd) = 0 THEN s1
             ELSE AllClassesDeps(m, s1, 1, _class_deps(s1.pyd[1]), 1)

\* _ParseModule(module, model_graph, parse_only_models).visit(tree)
VisitModule(m, g, parse_only_models) ==
    leave_Module(m, NewSession(VisitClassDefs(m, g, 1)), parse_only_models)

\* _ParseModule.classes()
classes(s) ==
    LET ordered_models == dfs_postorder_nodes(s.g)
        kept == SelectSeq(ordered_models, LAMBDA c : InPyd(s, c))
    IN  [i \in 1..Len(kept) |-> PydNamed(s, kept[i])]

\* _ParseModule.external_models(): <<module, class>> for "module.class"
external_models(m, s) ==
    {<<m.imports[name], name>> : name \in s.ext}
        \ {<<"uuid", "UUID">>, <<"pydantic", "BaseModel">>}

----------------------------------------------------------------------------
(* Module sources of a run of parse(root)                                   *)
(*                                                                         *)
(* The root module is "A"; it may import classes from module "B", which    *)
(* may import from "A" in turn.  Base classes are names declared earlier   *)
(* in the module, optionally followed by BaseModel; a class body has at    *)
(* most one annotated field, whose annotation is a bare name.              *)
(***************************************************************************)

\* Longest list of local base classes a class statement names.
MaxBases == 2

\* Deepest nesting of _parse the interpreter's stack allows (RecursionError).
MaxDepth == 4

NoSource == [imports |-> <<>>, classes |-> <<>>, aliases |-> <<>>]

\* where BaseModel comes from: the framework, another module, or no import
BaseModelOrigins == {"pydantic", "other", ""}

MkImports(pairs, bm) ==
    LET all == pairs \cup (IF bm = "" THEN {} ELSE {<<"BaseModel", bm>>})
    IN  [n \in {p[1] : p \in all} |-> (CHOOSE p \in all : p[1] = n)[2]]

LocalBaseLists(E) ==
    UNION {{l \in [1..n -> E] : \A i, j \in 1..n : i # j => l[i] # l[j]} :
           n \in 0..MaxBases}

BaseLists(E) ==
    LocalBaseLists(E)
        \cup {l \o <<"BaseModel">> : l \in {b \in LocalBaseLists(E) : Len(b) < MaxBases}}

FieldLists(refs) == {<<>>} \cup {<<Name(r)>> : r \in refs}

RECURSIVE ClassStatements(_, _, _)

\* every list of class statements named names[i..], in that order
ClassStatements(names, refs, i) ==
    IF i > Len(names) THEN {<<>>}
    ELSE {<<[name |-> names[i], bases |-> b, fields |-> f]>> \o rest :
            b \in BaseLists({names[j] : j \in 1..(i - 1)}),
            f \in FieldLists(refs),
            rest \in ClassStatements(names, refs, i + 1)}

Sources(names, refs, imported) ==
    {[imports |-> MkImports(imported, bm), classes |-> cs, aliases |-> <<>>] :
        bm \in BaseModelOrigins, cs \in ClassStatements(names, refs, 1)}

\* a root that imports nothing but BaseModel
LocalRoots == Sources(<<"K", "M", "N">>, {"K", "M", "N", "D"}, {})

\* a root that imports X, Y and W from B (B declares no W) and UUID from uuid
CrossRoots ==
    Sources(<<"K", "M">>, {"K", "M", "X", "Y", "W", "UUID", "D"},
            {<<"X", "B">>, <<"Y", "B">>, <<"W", "B">>, <<"UUID", "uuid">>})

\* module B imports K from the root; M is a name it neither imports nor declares
SourcesB == Sources(<<"Y", "X">>, {"Y", "X", "K", "M"}, {<<"K", "A">>})

SourcesOf(module) ==
    IF module = "A" THEN LocalRoots \cup CrossRoots ELSE SourcesB

ModuleIds == {"A", "B"}

----------------------------------------------------------------------------
(* Spec: a run of parse(root) *)

Frame(module, s, src) ==
    [module |-> module, pending |-> external_models(src, s), classes |-> classes(s)]

RunIdle ==
    /\ pc = "start"
    /\ files = [m \in ModuleIds |-> NoSource]
    /\ read = {}
    /\ model_graph = EmptyGraph
    /\ stack = <<>>
    /\ log = <<>>
    /\ loads = <<>>
    /\ raised = ""
    /\ result = <<>>

TypeIdle ==
    /\ expr = Name("int")
    /\ pytype = "none"
    /\ tpc = "idle"

ModIdle ==
    /\ msrc = NoSource
    /\ monly = {}
    /\ msess = NewSession(EmptyGraph)
    /\ mpc = "idle"

Init == RunIdle /\ TypeIdle /\ ModIdle

\* _parse(module, parse_only_models, model_graph) up to its loop over
\* depends_on: the module's source is read and visited
EnterModule(module, src, parse_only_models) ==
    LET s == VisitModule(src, model_graph, parse_only_models)
    IN  /\ files' = [files EXCEPT ![module] = src]
        /\ read' = read \cup {module}
        /\ log' = log \o s.warns
        /\ IF s.raised # ""
           THEN /\ pc' = "raised"
                /\ raised' = s.raised
                /\ UNCHANGED <<model_graph, stack>>
           ELSE /\ pc' = "running"
                /\ model_graph' = s.g
                /\ stack' = Append(stack, Frame(module, s, src))
                /\ UNCHANGED raised

\* parse(module): model_graph = DiGraph(); _parse(module, set(), model_graph)
Parse ==
    /\ pc = "start"
    /\ \E src \in SourcesOf("A") : EnterModule("A", src, {})
    /\ UNCHANGED <<loads, result>>
    /\ UNCHANGED <<typeVars, modVars>>

\* for model_path in depends_on: import_module(...); _parse(m, {model_name}, ...)
LoadDependency ==
    /\ pc = "running"
    /\ \E path \in stack[Len(stack)].pending :
        /\ loads' = Append(loads, path)
        /\ IF Len(stack) >= MaxDepth
           THEN /\ pc' = "raised"
                /\ raised' = "RecursionError"
                /\ UNCHANGED <<files, read, model_graph, stack, log>>
           ELSE \E src \in (IF path[1] \in read THEN {files[path[1]]}
                                                ELSE SourcesOf(path[1])) :
                    LET caller == [stack EXCEPT ![Len(stack)].pending = @ \ {path}]
                        s == VisitModule(src, model_graph, {path[2]})
                    IN  /\ files' = [files EXCEPT ![path[1]] = src]
                        /\ read' = read \cup {path[1]}
                        /\ log' = log \o s.warns
                        /\ IF s.raised # ""
                           THEN /\ pc' = "raised"
                                /\ raised' = s.raised
                                /\ UNCHANGED <<model_graph, stack>>
                           ELSE /\ pc' = "running"
                                /\ model_graph' = s.g
                                /\ stack' = Append(caller, Frame(path[1], s, src))
                                /\ UNCHANGED raised
    /\ UNCHANGED result
    /\ UNCHANGED <<typeVars, modVars>>

\* return classes, into the caller's classes += ...
Return ==
    /\ pc = "running"
    /\ Len(stack) > 1
    /\ stack[Len(stack)].pending = {}
    /\ stack' = [SubSeq(stack, 1, Len(stack) - 1) EXCEPT
                    ![Len(stack) - 1].classes = @ \o stack[Len(stack)].classes]
    /\ UNCHANGED <<pc, files, read, model_graph, log, loads, raised, result>>
    /\ UNCHANGED <<typeVars, modVars>>

\* models_by_name = {c.name: c for c in pydantic_models}: the last one wins
models_by_name(pydantic_models, name) ==
    pydantic_models[CHOOSE i \in 1..Len(pydantic_models) :
        /\ pydantic_models[i].name = name
        /\ \A j \in (i + 1)..Len(pydantic_models) : pydantic_models[j].name # name]

OrderedModels(pydantic_models, g) ==
    LET ordered_models == dfs_postorder_nodes(g)
        kept == SelectSeq(ordered_models,
                          LAMBDA c : \E i \in 1..Len(pydantic_models) :
                                        pydantic_models[i].name = c)
    IN  [i \in 1..Len(kept) |-> models_by_name(pydantic_models, kept[i])]

\* the root _parse returns; parse() orders the models and returns them
Finish ==
    /\ pc = "running"
    /\ Len(stack) = 1
    /\ stack[1].pending = {}
    /\ result' = OrderedModels(stack[1].classes, model_graph)
    /\ pc' = "done"
    /\ UNCHANGED <<files, read, model_graph, stack, log, loads, raised>>
    /\ UNCHANGED <<typeVars, modVars>>

Next == Parse \/ LoadDependency \/ Return \/ Finish

Spec == Init /\ [][Next]_vars

----------------------------------------------------------------------------
(* SpecModule: one _ParseModule(module, DiGraph(), parse_only_models).exec() *)
(*                                                                         *)
(* The module declares K and then M.  K's body has at most one field, a    *)
(* bare name; M's body has up to MaxFields fields whose annotations name K,*)
(* bare, or the undeclared D or the alias Age, bare or inside list[...],   *)
(* tuple[..., int] or ... | None.                                          *)
(***************************************************************************)

\* Most annotated fields in the body of M.
MaxFields == 2

FieldAnnotations ==
    {Name("int"), Name("K")}
        \cup UNION {{Name(r), Sub("list", <<Name(r)>>), Sub("tuple", <<Name(r), Name("int")>>),
                    Or(Name(r), Name("None"))} : r \in {"D", "Age"}}

AliasTables ==
    {<<>>,
     [n \in {"Age"} |-> Name("int")],
     [n \in {"Age"} |-> Name("K")],
     [n \in {"Age", "Years"} |-> IF n = "Age" THEN Name("Years") ELSE Name("int")]}

ModuleSource(bm, kb, kf, mb, mf, al) ==
    [imports |-> MkImports({}, bm),
     classes |-> <<[name |-> "K", bases |-> kb, fields |-> kf],
                   [name |-> "M", bases |-> mb, fields |-> mf]>>,
     aliases |-> al]

InitModule ==
    /\ \E bm \in {"pydantic", ""}, kb \in BaseLists({}), kf \in FieldLists({"M", "D"}),
          mb \in BaseLists({"K"}), al \in AliasTables :
            \E n \in 0..MaxFields : \E mf \in [1..n -> FieldAnnotations] :
                msrc = ModuleSource(bm, kb, kf, mb, mf, al)
    /\ monly \in {{}, {"K"}, {"M"}}
    /\ msess = NewSession(EmptyGraph)
    /\ mpc = "start"
    /\ RunIdle
    /\ TypeIdle

Exec ==
    /\ mpc = "start"
    /\ msess' = VisitModule(msrc, EmptyGraph, monly)
    /\ mpc' = "done"
    /\ UNCHANGED <<msrc, monly>>
    /\ UNCHANGED <<typeVars, runVars>>

NextModule == Exec

SpecModule == InitModule /\ [][NextModule]_vars

----------------------------------------------------------------------------
(* Annotations handed to the extractor in SpecType *)

\* Longest subscript / Literal value list that is enumerated.
MaxArgs == 2

LiteralValues == <<"a", "b", "c", "d">>

AtomNames == {"int", "None", "A", "B"}

Atoms ==
    {Name(n) : n \in AtomNames}
        \cup {Sub("Literal", [i \in 1..n |-> Str(LiteralValues[i])]) : n \in 1..MaxArgs}

\* the other elements of a subscript that holds a nested annotation
Fillers == {Name("None"), Name("A")}

\* Subscript element lists of 1..MaxArgs elements, one of them drawn from S
\* and the others from R.
ArgLists(S, R) ==
    UNION {{[base EXCEPT ![pos] = x] : base \in [1..n -> R], pos \in 1..n, x \in S} :
           n \in 1..MaxArgs}

\* One more level of nesting over the annotations in S.
Nest(S) ==
    S \cup {Sub("Optional", <<x>>) : x \in S}
      \cup {Sub("list", <<x>>) : x \in S}
      \cup {Sub("set", <<x>>) : x \in Atoms}
      \cup {Sub("dict", <<Name("str"), x>>) : x \in S}
      \cup {Sub(g, args) : g \in {"Union", "tuple"}, args \in ArgLists(S, Fillers)}
      \cup {Or(x, r) : x \in S, r \in Atoms}
      \cup {Or(r, x) : x \in S, r \in Atoms}

----------------------------------------------------------------------------
(* SpecType: one call of _extract_type on an annotation *)

InitType ==
    /\ expr \in Nest(Nest(Atoms))
    /\ pytype = "none"
    /\ tpc = "start"
    /\ RunIdle
    /\ ModIdle

ExtractType ==
    /\ tpc = "start"
    /\ pytype' = _extract_type(expr)
    /\ tpc' = "done"
    /\ UNCHANGED expr
    /\ UNCHANGED <<modVars, runVars>>

NextType == ExtractType

SpecType == InitType /\ [][NextType]_vars

----------------------------------------------------------------------------
(* Vocabulary of the properties *)

HasEdge(g, u, v) == InSeq(<<u, v>>, g.edges)

RECURSIVE ReachableFrom(_, _)

\* the nodes reachable from the set S along edges of g, S included
ReachableFrom(g, S) ==
    LET T == S \cup {e[2] : e \in {d \in Range(g.edges) : d[1] \in S}}
    IN  IF T = S THEN S ELSE ReachableFrom(g, T)

Acyclic(g) == \A e \in Range(g.edges) : e[1] \notin ReachableFrom(g, {e[2]})

Names(decls) == {decls[i].name : i \in 1..Len(decls)}

Positions(decls, name) == {i \in 1..Len(decls) : decls[i].name = name}

Count(seq, x) == Cardinality({i \in 1..Len(seq) : seq[i] = x})

RECURSIVE AllUserTypes(_)

\* every UserDefinedType name at any position of a type tree
AllUserTypes(tp) ==
    IF tp.t = "UserDefined" THEN {tp.n}
    ELSE UNION {AllUserTypes(tp.a[i]) : i \in 1..Len(tp.a)}

RECURSIVE IsModel(_, _)

\* The classification rule: a base that is BaseModel imported from pydantic,
\* or some base that is a local class which is itself a model.
IsModel(m, cls) ==
    \E i \in 1..Len(cls.bases) :
        \/ /\ cls.bases[i] = "BaseModel"
           /\ "BaseModel" \in DOMAIN m.imports
           /\ m.imports["BaseModel"] = "pydantic"
        \/ /\ HasClass(m, cls.bases[i])
           /\ IsModel(m, ClassNode(m, cls.bases[i]))

\* the names a class statement depends on: its bases other than BaseModel
\* and every user-defined name in its field annotations
References(node) ==
    ({node.bases[i] : i \in 1..Len(node.bases)} \ {"BaseModel"})
        \cup UNION {AllUserTypes(_extract_type(node.fields[i])) : i \in 1..Len(node.fields)}

\* the model classes one dependency away from the model class <<module, name>>
ResolvedDeps(mc) ==
    LET m == files[mc[1]]
    IN  {<<m.imports[d], d>> : d \in {r \in References(ClassNode(m, mc[2])) :
            /\ r \in DOMAIN m.imports
            /\ m.imports[r] \in read
            /\ HasClass(files[m.imports[r]], r)
            /\ IsModel(files[m.imports[r]], ClassNode(files[m.imports[r]], r))}}
        \cup {<<mc[1], d>> : d \in {r \in References(ClassNode(m, mc[2])) :
            /\ r \notin DOMAIN m.imports
            /\ HasClass(m, r)
            /\ IsModel(m, ClassNode(m, r))}}

RECURSIVE ReachedModels(_)

ReachedModels(S) ==
    LET T == S \cup UNION {ResolvedDeps(mc) : mc \in S}
    IN  IF T = S THEN S ELSE ReachedModels(T)

RootModels ==
    {<<"A", files["A"].classes[i].name>> :
        i \in {j \in 1..Len(files["A"].classes) : IsModel(files["A"], files["A"].classes[j])}}

\* the modules a module's model classes import a dependency from
CrossModuleDeps(module) ==
    LET m == files[module]
    IN  {m.imports[r] : r \in UNION {References(m.classes[i]) \cap DOMAIN m.imports :
            i \in {j \in 1..Len(m.classes) : IsModel(m, m.classes[j])}}}
            \cap ModuleIds

RECURSIVE ModulesBelow(_)

ModulesBelow(S) ==
    LET T == S \cup UNION {CrossModuleDeps(mod) : mod \in S}
    IN  IF T = S THEN S ELSE ModulesBelow(T)

CrossModuleAcyclic ==
    \A mod \in ModuleIds : \A d \in CrossModuleDeps(mod) : mod \notin ModulesBelow({d})

RECURSIVE LongestChain(_)

\* the length of the longest cross-module dependency chain that starts at module
LongestChain(module) ==
    IF CrossModuleDeps(module) = {} THEN 0
    ELSE LET below == {LongestChain(d) : d \in CrossModuleDeps(module)}
         IN  1 + CHOOSE n \in below : \A k \in below : k <= n

----------------------------------------------------------------------------
(* C1 *)

\* C1: in the list parse() returns for an acyclic graph, a class comes after
\* every class of the list that it depends on (a graph edge, or a name of its
\* own dependency list).
C1_DependenciesFirst ==
    (pc = "done" /\ Acyclic(model_graph)) =>
        \A x, y \in 1..Len(result) :
            (\/ HasEdge(model_graph, result[x].name, result[y].name)
             \/ InSeq(result[y].name, _class_deps(result[x])))
                => y < x

\* a diamond M -> {K, X} -> Y whose top is declared in the root and whose
\* bottom is declared in module B, all four emitted
C1_DiamondAcrossModules ==
    /\ pc = "done"
    /\ Acyclic(model_graph)
    /\ {"K", "M", "X", "Y"} \subseteq Names(result)
    /\ HasEdge(model_graph, "M", "K") /\ HasEdge(model_graph, "M", "X")
    /\ HasEdge(model_graph, "K", "Y") /\ HasEdge(model_graph, "X", "Y")
    /\ HasClass(files["A"], "M") /\ HasClass(files["B"], "Y")

----------------------------------------------------------------------------
(* C2 *)

\* C2: for an acyclic graph, every model class declared in the root or
\* reached from it through resolved dependencies is in the returned list
\* exactly once, with its own name, bases and fields.
C2_EveryModelOnce ==
    (pc = "done" /\ Acyclic(model_graph)) =>
        \A mc \in ReachedModels(RootModels) :
            /\ Cardinality(Positions(result, mc[2])) = 1
            /\ \A i \in Positions(result, mc[2]) :
                LET node == ClassNode(files[mc[1]], mc[2])
                IN  result[i] = ClassDecl(node.name, node.bases, ExtractFields(node))

----------------------------------------------------------------------------
(* C3 *)

\* C3: when a root model M has a field typed N, N imported from B and a model
\* there, the run records M -> N, loads B for N, emits N with the fields of
\* B's source and N's own edges, and returns N before M; uuid.UUID and
\* pydantic.BaseModel are never loaded.
C3_CrossModuleResolution ==
    (pc = "done" /\ "B" \in read) =>
        /\ \A i \in 1..Len(files["A"].classes) :
            LET M == files["A"].classes[i]
            IN  \A N \in UNION {AllUserTypes(_extract_type(M.fields[f])) : f \in 1..Len(M.fields)} :
                    (/\ IsModel(files["A"], M)
                     /\ N \in DOMAIN files["A"].imports
                     /\ files["A"].imports[N] = "B"
                     /\ HasClass(files["B"], N)
                     /\ IsModel(files["B"], ClassNode(files["B"], N)))
                    => /\ HasEdge(model_graph, M.name, N)
                       /\ InSeq(<<"B", N>>, loads)
                       /\ \E n \in 1..Len(result) :
                            /\ result[n].name = N
                            /\ result[n].fields = ExtractFields(ClassNode(files["B"], N))
                            /\ \A d \in References(ClassNode(files["B"], N)) :
                                    HasEdge(model_graph, N, d)
                            /\ \E k \in 1..Len(result) : result[k].name = M.name /\ n < k
        /\ \A l \in 1..Len(loads) :
            loads[l] \notin {<<"uuid", "UUID">>, <<"pydantic", "BaseModel">>}

----------------------------------------------------------------------------
(* C4 *)

RECURSIVE UnionsFlat(_)

UnionsFlat(tp) ==
    /\ tp.t = "Union" => \A i \in 1..Len(tp.a) : tp.a[i].t # "Union"
    /\ \A i \in 1..Len(tp.a) : UnionsFlat(tp.a[i])

\* C4: no UnionType in the type extracted from an accepted annotation has a
\* member that is itself a UnionType.
C4_UnionsFlat ==
    (tpc = "done" /\ pytype.t # "Error") => UnionsFlat(pytype)

----------------------------------------------------------------------------
(* C5 *)

NonePrimitive == PrimitiveType("None")

\* the T of which the annotation is one of the five optional forms, per form
OptionalArg == IF expr.k = "Sub" /\ expr.n = "Optional" /\ Len(expr.a) = 1
               THEN {expr.a[1]} ELSE {}
UnionLastNone == IF expr.k = "Sub" /\ expr.n = "Union" /\ Len(expr.a) = 2
                    /\ expr.a[2] = Name("None")
                 THEN {expr.a[1]} ELSE {}
UnionFirstNone == IF expr.k = "Sub" /\ expr.n = "Union" /\ Len(expr.a) = 2
                     /\ expr.a[1] = Name("None")
                  THEN {expr.a[2]} ELSE {}
OrLastNone == IF expr.k = "Or" /\ expr.a[2] = Name("None") THEN {expr.a[1]} ELSE {}
OrFirstNone == IF expr.k = "Or" /\ expr.a[1] = Name("None") THEN {expr.a[2]} ELSE {}

Spliced(tp) == IF tp.t = "Union" THEN tp.a ELSE <<tp>>

----------------------------------------------------------------------------
(* C6 *)

\* C6: _is_pydantic_model answers true exactly for the classes the
\* classification rule makes models, and false, without raising, for the others.
C6_ClassifiedByRule ==
    \A mod \in read : \A i \in 1..Len(files[mod].classes) :
        _is_pydantic_model(files[mod], files[mod].classes[i])
            = (IF IsModel(files[mod], files[mod].classes[i]) THEN "true" ELSE "false")

----------------------------------------------------------------------------
(* C7 *)

RECURSIVE DependencyNames(_)

\* the user-defined names of a type that belong to the dependency set: those
\* reached through union members and generic type arguments
DependencyNames(tp) ==
    IF tp.t = "UserDefined" THEN {tp.n}
    ELSE IF tp.t \in {"Union", "Generic"}
    THEN UNION {DependencyNames(tp.a[i]) : i \in 1..Len(tp.a)}
    ELSE {}

\* the dependencies of a class statement's fields that the module neither
\* imports, declares as a class nor records as an alias
Dangling(m, node) ==
    {d \in UNION {DependencyNames(_extract_type(node.fields[i])) : i \in 1..Len(node.fields)} :
        d \notin DOMAIN m.imports /\ ~HasClass(m, d) /\ d \notin DOMAIN m.aliases}

\* C7: a fully extracted model X with a field naming an unknown D: the visit
\* ends without error, X is among classes(), the edge X -> D is in the graph,
\* D is not emitted and exactly one warning is logged for <<D, X>>.
C7_DanglingDependency ==
    mpc = "done" =>
        \A i \in 1..Len(msess.pyd) :
            \A D \in Dangling(msrc, ClassNode(msrc, msess.pyd[i].name)) :
                /\ msess.raised = ""
                /\ msess.pyd[i].name \in Names(classes(msess))
                /\ HasEdge(msess.g, msess.pyd[i].name, D)
                /\ D \notin Names(classes(msess))
                /\ Count(msess.warns, <<D, msess.pyd[i].name>>) = 1

----------------------------------------------------------------------------
(* C8 *)

RECURSIVE SubstituteAliases(_, _)

\* a type with every user-defined leaf that names an alias replaced, once, by
\* the alias's extracted type
SubstituteAliases(m, tp) ==
    IF tp.t = "UserDefined"
    THEN IF tp.n \in DOMAIN m.aliases THEN _extract_type(m.aliases[tp.n]) ELSE tp
    ELSE [tp EXCEPT !.a = [i \in 1..Len(tp.a) |-> SubstituteAliases(m, tp.a[i])]]

\* C8: in a fully extracted model, every field's type is its annotation's
\* type with the alias names substituted at every position.
C8_AliasesSubstituted ==
    (mpc = "done" /\ msess.raised = "") =>
        \A i \in 1..Len(msess.pyd) :
            LET node == ClassNode(msrc, msess.pyd[i].name)
            IN  \A f \in 1..Len(node.fields) :
                    msess.pyd[i].fields[f]
                        = SubstituteAliases(msrc, _extract_type(node.fields[f]))

----------------------------------------------------------------------------
(* C9 *)

\* C9: with an acyclic cross-module dependency relation the run does not end
\* in an exception, and never nests more _parse invocations than the longest
\* cross-module dependency chain from the root, plus the root's own.
C9_ReturnsWithinChainDepth ==
    CrossModuleAcyclic =>
        /\ raised = ""
        /\ Len(stack) <= 1 + LongestChain("A")

----------------------------------------------------------------------------
(* C10 *)

\* C10: for a fully extracted model X, every user-defined name Y anywhere in
\* a field's type tree, tuple members included, is an edge X -> Y; when Y is
\* another emitted class of an acyclic graph it comes before X.
C10_EdgesCoverReferences ==
    (mpc = "done" /\ msess.raised = "") =>
        \A i \in 1..Len(msess.pyd) :
            \A f \in 1..Len(msess.pyd[i].fields) :
                \A Y \in AllUserTypes(msess.pyd[i].fields[f]) :
                    /\ HasEdge(msess.g, msess.pyd[i].name, Y)
                    /\ (Acyclic(msess.g) /\ Y \in Names(classes(msess)))
                        => \E x, y \in 1..Len(classes(msess)) :
                            /\ classes(msess)[y].name = Y
                            /\ classes(msess)[x].name = msess.pyd[i].name
                            /\ y < x

====
